---- MODULE Spec2Model ----
(***************************************************************************)
(* A model of src/parser.py: the feed parser that classifies channel posts *)
(* as "closed"/"open" signals, resolves the airports they name, keeps a    *)
(* per-airport event log in status.json and derives closure periods.       *)
(*                                                                         *)
(* Conventions of the model                                                *)
(*   - a string of the program is a tuple of one-character strings, so     *)
(*     that slug() and make_regex() are computed character by character;   *)
(*     Cyrillic names are written in Latin transliteration;                *)
(*   - a datetime is the integer number of seconds of its instant;         *)
(*   - Python's None is the empty tuple where the other values are tuples; *)
(*   - a dict is a function, its keys are the function's DOMAIN.           *)
(***************************************************************************)
EXTENDS Integers, Sequences, FiniteSets, TLC

VARIABLES
    store,      \* contents of status.json: key -> saved record (no "periods")
    feed,       \* fp.entries: the items of the fetched feed, in feed order
    hist,       \* process()'s in-memory dict: key -> entity record
    ICAO_MAP,   \* the name directory, an insertion-ordered dict: <<[name, icao], ...>>
    NAME_RE,    \* dict icao -> compiled name pattern
    pc,         \* position of the run: "idle", "loop", "save", "build", "done", "crashed"
    entries,    \* sorted(fp.entries, key=msg_id) of the current run
    pos,        \* index into entries of the next item of the for loop
    clock,      \* key -> the datetime.now(MSK) read by that entity's last reconstruction
    calls,      \* number of recompute_periods calls made on the records of hist
    run,        \* number of runs of the script started so far
    loaded,     \* history: status.json as load_hist read it in the current run
    merges,     \* history: the merge_slug calls made for the last processed item
    touched,    \* history: keys an event was appended under in the current run
    seen,       \* history: <<name, icao>> of the triples handled in the current run
    writes,     \* history: number of times the current run wrote status.json
    reconciled  \* history: <<slug key, identifier>> of the merge_slug calls of the run

vars == <<store, feed, hist, ICAO_MAP, NAME_RE, pc, entries, pos, clock, calls,
          run, loaded, merges, touched, seen, writes, reconciled>>

(***************************************************************************)
(* Bounds of the model.                                                    *)
(***************************************************************************)
MaxLog == 3      \* longest event log drawn as an input of recompute_periods
MaxT == 2        \* timestamps are Stamp(0) .. Stamp(MaxT)
MaxCalls == 2    \* reconstructions of one in-memory record under SpecPeriods
MaxItems == 2    \* longest feed
MaxRuns == 2     \* runs of the script under SpecRuns

(***************************************************************************)
(* Generic helpers.                                                        *)
(***************************************************************************)
Range(s) == {s[i] : i \in 1..Len(s)}

Last(s) == s[Len(s)]

SeqsUpTo(S, n) == UNION {[1..m -> S] : m \in 0..n}

\* Timestamps of the model, in seconds: two instants within one minute, then
\* instants more than a day later, so that fmt's truncation to minutes and
\* both branches of duration_str occur.
Stamp(i) == i * 40 + (i \div 2) * 90000

Stamps == {Stamp(i) : i \in 0..MaxT}

None == << >>

Statuses == {"closed", "open"}

(***************************************************************************)
(* Formatting (src/parser.py lines 94-102).                                *)
(***************************************************************************)
\* fmt: strftime("%d.%m.%Y %H:%M") keeps the instant's minute and drops the
\* seconds; the formatted text is modelled as the 1-tuple of that minute
\* (the end marker below is a 2-tuple, so the two never compare equal).
fmt(dt) == << dt \div 60 >>

\* duration_str: "<h> ч <m> м", or "<d> д <h> ч <m> м" from 24 hours on.
\* divmod and // floor, as \div and % do.
duration_str(td) ==
    LET h == td \div 3600
        rem == td % 3600
        m == rem \div 60
    IN IF h >= 24 THEN << h \div 24, h % 24, m >> ELSE << h, m >>

\* the "— идёт" end marker of a period that is still open
Ongoing == << "-", "ongoing" >>

(***************************************************************************)
(* Interval reconstruction (src/parser.py lines 130-148).                  *)
(***************************************************************************)
Period(start, end) ==
    [from |-> fmt(start), to |-> fmt(end), dur |-> duration_str(end - start)]

\* One turn of the for loop over ap["events"]: st = <<periods, start>>.
\* start is None or <<dt>>; a datetime is always truthy, so "and start"
\* tests "start is not None".
OpensMutant(ev, start) == ev.status = "closed"

Opens(ev, start) == ev.status = "closed" /\ start = None

ScanEventMutant(st, ev) ==
    LET start1 == IF Opens(ev, st[2]) THEN << ev.dt >> ELSE st[2]
    IN IF ev.status = "open" /\ start1 # None
       THEN << Append(st[1], Period(start1[1], ev.dt)), start1 >>
       ELSE << st[1], start1 >>

ScanEvent(st, ev) ==
    LET start1 == IF Opens(ev, st[2]) THEN << ev.dt >> ELSE st[2]
    IN IF ev.status = "open" /\ start1 # None
       THEN << Append(st[1], Period(start1[1], ev.dt)), None >>
       ELSE << st[1], start1 >>

RECURSIVE ScanFrom(_, _, _)
ScanFrom(events, k, st) ==
    IF k > Len(events) THEN st
    ELSE ScanFrom(events, k + 1, ScanEvent(st, events[k]))

OngoingPeriod(start, now) ==
    [from |-> fmt(start), to |-> Ongoing, dur |-> duration_str(now - start)]

\* the periods list built by recompute_periods, the trailing ongoing one included
TailMutant(st, now) ==
    IF st[2] # None THEN << OngoingPeriod(st[2][1], now) >> \o st[1] ELSE st[1]

WithTail(st, now) ==
    IF st[2] # None THEN Append(st[1], OngoingPeriod(st[2][1], now)) ELSE st[1]

PeriodsOf(events, now) == WithTail(ScanFrom(events, 1, << << >>, None >>), now)

\* ap["periods"] = periods: the record with its "periods" key (re)bound
SetPeriodsMutant(ap, ps) ==
    [name |-> ap.name, icao |-> ap.icao, current |-> ap.current,
     events |-> ap.events,
     periods |-> IF "periods" \in DOMAIN ap THEN ap.periods \o ps ELSE ps]

SetPeriods(ap, ps) ==
    [name |-> ap.name, icao |-> ap.icao, current |-> ap.current,
     events |-> ap.events, periods |-> ps]

recompute_periods(ap, now) == SetPeriods(ap, PeriodsOf(ap.events, now))

(***************************************************************************)
(* Specification SpecPeriods: recompute_periods applied, any number of     *)
(* times and at any wall-clock reading, to one entity record whose event   *)
(* log is drawn from all logs of at most MaxLog events.                    *)
(***************************************************************************)
Events == [dt : Stamps, status : Statuses]

KeyP == << "U", "U", "B", "C" >>

InitPeriods ==
    /\ \E log \in SeqsUpTo(Events, MaxLog) :
          /\ Len(log) >= 1
          /\ hist = [k \in {KeyP} |->
                       [name |-> << "K" >>, icao |-> KeyP,
                        current |-> Last(log).status, events |-> log]]
    /\ store = << >>
    /\ feed = << >>
    /\ ICAO_MAP = << >>
    /\ NAME_RE = << >>
    /\ pc = "render"
    /\ entries = << >>
    /\ pos = 1
    /\ clock = << >>
    /\ calls = 0
    /\ run = 0
    /\ loaded = << >>
    /\ merges = << >>
    /\ touched = {}
    /\ seen = {}
    /\ writes = 0
    /\ reconciled = {}

Reconstruct ==
    /\ pc = "render"
    /\ calls < MaxCalls
    /\ calls' = calls + 1
    /\ \E now \in Stamps :
          /\ hist' = [k \in DOMAIN hist |-> recompute_periods(hist[k], now)]
          /\ clock' = [k \in DOMAIN hist |-> now]
    /\ UNCHANGED <<store, feed, ICAO_MAP, NAME_RE, pc, entries, pos,
                   run, loaded, merges, touched, seen, writes, reconciled>>

NextPeriods == Reconstruct

SpecPeriods == InitPeriods /\ [][NextPeriods]_vars

(***************************************************************************)
(* Names, keys and patterns (src/parser.py lines 33-51).                   *)
(***************************************************************************)
\* The names and identifiers of the model. "Kaluga" is an entry of the seed
\* table (line 38), "Omsk" is a name the seed table does not know.
Kaluga == << "K", "a", "l", "u", "g", "a" >>
Omsk == << "O", "m", "s", "k" >>
UUBC == << "U", "U", "B", "C" >>
UNOO == << "U", "N", "O", "O" >>

\* str.lower() on the letters the model uses
Lower(c) ==
    CASE c = "K" -> "k" [] c = "O" -> "o" [] c = "U" -> "u" [] c = "B" -> "b"
      [] c = "C" -> "c" [] c = "N" -> "n" [] c = "A" -> "a" [] c = "I" -> "i"
      [] c = "J" -> "j" [] c = "E" -> "e" [] c = "Yo" -> "yo"
      [] OTHER -> c

\* unicodedata.normalize("NFKD", .) of one character: "j" (short i) decomposes
\* into the base letter and the combining breve, the other letters are kept
NFKD(c) ==
    CASE c = "j" -> << "i", "^" >> [] c = "J" -> << "I", "^" >> [] OTHER -> << c >>

\* .replace('yo', 'e') of one character
ReplaceYo(c) == IF c = "yo" THEN "e" ELSE c

RECURSIVE SlugFrom(_, _)
SlugFrom(name, k) ==
    IF k > Len(name) THEN << >>
    ELSE LET d == NFKD(name[k])
         IN [n \in 1..Len(d) |-> ReplaceYo(Lower(d[n]))] \o SlugFrom(name, k + 1)

slug(name) == SlugFrom(name, 1)

\* the character class of line 45, matched ignoring case
Vowels == {"a", "o", "u", "y", "e", "yo", "i", "yu", "ya"}

\* make_regex: strip one trailing vowel, fall back to the whole name when the
\* stem has fewer than 4 characters; the compiled pattern \b<stem>\w* with re.I
\* is modelled by its stem
make_regex(name) ==
    LET stem == IF Len(name) >= 1 /\ Lower(Last(name)) \in Vowels
                THEN SubSeq(name, 1, Len(name) - 1) ELSE name
    IN [stem |-> IF Len(stem) < 4 THEN name ELSE stem]

\* pat.search(txt): some word of the text starts with the stem, case ignored
Search(pat, txt) ==
    \E w \in txt.words :
        /\ Len(w) >= Len(pat.stem)
        /\ \A n \in 1..Len(pat.stem) : Lower(w[n]) = Lower(pat.stem[n])

\* the seed table, reduced to one of its entries
SeedMap == << [name |-> Kaluga, icao |-> UUBC] >>

MapGetMutant(map, name) == None

\* ICAO_MAP.get(name)
MapGet(map, name) ==
    IF \E n \in 1..Len(map) : map[n].name = name
    THEN map[CHOOSE n \in 1..Len(map) : map[n].name = name].icao
    ELSE None

MapSetDefaultMutant(map, name, icao) == << [name |-> name, icao |-> icao] >>

\* ICAO_MAP.setdefault(name, icao)
MapSetDefault(map, name, icao) ==
    IF \E n \in 1..Len(map) : map[n].name = name
    THEN map
    ELSE Append(map, [name |-> name, icao |-> icao])

\* d[k] = v and del d[k] on a dict
Put(d, k, v) == [x \in DOMAIN d \cup {k} |-> IF x = k THEN v ELSE d[x]]

Del(d, k) == [x \in DOMAIN d \ {k} |-> d[x]]

\* NAME_RE.setdefault(icao, pat)
ReSetDefault(re, icao, pat) == IF icao \in DOMAIN re THEN re ELSE Put(re, icao, pat)

\* NAME_RE = {icao: make_regex(n) for n, icao in ICAO_MAP.items()}
RECURSIVE NameReFrom(_, _)
NameReFrom(map, k) ==
    IF k = 0 THEN << >>
    ELSE Put(NameReFrom(map, k - 1), map[k].icao, make_regex(map[k].name))

SeedRe == NameReFrom(SeedMap, Len(SeedMap))

(***************************************************************************)
(* Classification and entity resolution (src/parser.py lines 67-92).       *)
(* A text is [closed, opened, codes, words]: whether RX_CLOSED and RX_OPEN *)
(* find a match, the matches of RX_CODE in order (stripped name and code), *)
(* and the words of the text.                                              *)
(***************************************************************************)
classifyMutant(txt) ==
    IF txt.opened THEN << "open" >> ELSE IF txt.closed THEN << "closed" >> ELSE None

\* classify: <<status>>, or None when the function falls off its end
classify(txt) ==
    IF txt.closed THEN << "closed" >> ELSE IF txt.opened THEN << "open" >> ELSE None

\* pass (1): acc = [found, map, re]
RECURSIVE CodePass(_, _, _)
CodePass(codes, k, acc) ==
    IF k > Len(codes) THEN acc
    ELSE CodePass(codes, k + 1,
            [found |-> Append(acc.found, [key |-> codes[k].icao, name |-> codes[k].name,
                                          icao |-> codes[k].icao]),
             map |-> MapSetDefault(acc.map, codes[k].name, codes[k].icao),
             re |-> ReSetDefault(acc.re, codes[k].icao, make_regex(codes[k].name))])

\* pass (2), one name: NAME_RE.get(ICAO_MAP.get(name)) or make_regex(name)
PatternFor(name, map, re) ==
    IF MapGet(map, name) \in DOMAIN re THEN re[MapGet(map, name)] ELSE make_regex(name)

RECURSIVE BarePass(_, _, _, _, _)
BarePass(names, k, txt, map, re) ==
    IF k > Len(names) THEN << >>
    ELSE LET name == names[k]
             icao == MapGet(map, name)
         IN (IF Search(PatternFor(name, map, re), txt)
             THEN << [key |-> IF icao # None THEN icao ELSE slug(name),
                      name |-> name, icao |-> icao] >>
             ELSE << >>) \o BarePass(names, k + 1, txt, map, re)

\* uniq[k] = (k, n, i) for every found triple, then list(uniq.values()): one
\* triple per key, at the place of the key's first triple, the key's last triple
Uniq(found) ==
    LET firsts == SelectSeq([n \in 1..Len(found) |-> n],
                            LAMBDA n : \A m \in 1..(n - 1) : found[m].key # found[n].key)
    IN [j \in 1..Len(firsts) |->
          found[CHOOSE n \in 1..Len(found) :
                  /\ found[n].key = found[firsts[j]].key
                  /\ \A m \in (n + 1)..Len(found) : found[m].key # found[n].key]]

\* extract_airports: [cands, map, re], the returned list and the two module
\* dicts as the call leaves them
extract_airports(txt, map, re) ==
    LET p1 == CodePass(txt.codes, 1, [found |-> << >>, map |-> map, re |-> re])
        names == [n \in 1..Len(p1.map) |-> p1.map[n].name]
                    \o [n \in 1..Len(p1.found) |-> p1.found[n].name]
        found == p1.found \o BarePass(names, 1, txt, p1.map, p1.re)
    IN [cands |-> Uniq(found), map |-> p1.map, re |-> p1.re]

(***************************************************************************)
(* The store and the pipeline (src/parser.py lines 105-127, 150-205).      *)
(***************************************************************************)
\* datetime.isoformat() and datetime.fromisoformat(): the text keeps the instant
iso(dt) == << "iso", dt >>

fromiso(text) == text[2]

\* load_hist: every event's "dt" parsed back to a datetime
load_hist(file) ==
    [k \in DOMAIN file |->
        [name |-> file[k].name, icao |-> file[k].icao, current |-> file[k].current,
         events |-> [n \in 1..Len(file[k].events) |->
                        [dt |-> fromiso(file[k].events[n].dt),
                         status |-> file[k].events[n].status]]]]

\* save_hist: name, icao, current and the events with ISO strings; "periods"
\* is not written
save_hist(h) ==
    [k \in DOMAIN h |->
        [name |-> h[k].name, icao |-> h[k].icao, current |-> h[k].current,
         events |-> [n \in 1..Len(h[k].events) |->
                        [dt |-> iso(h[k].events[n].dt),
                         status |-> h[k].events[n].status]]]]

\* sorted(seq, key): Python's sort is stable.  keys[i] is the key of seq[i]
RECURSIVE InsertBy(_, _)
InsertBy(sorted, x) ==
    IF sorted = << >> THEN << x >>
    ELSE IF Last(sorted).key <= x.key THEN Append(sorted, x)
    ELSE Append(InsertBy(SubSeq(sorted, 1, Len(sorted) - 1), x), Last(sorted))

RECURSIVE SortedKeyed(_)
SortedKeyed(pairs) ==
    IF pairs = << >> THEN << >>
    ELSE InsertBy(SortedKeyed(SubSeq(pairs, 1, Len(pairs) - 1)), Last(pairs))

SortedBy(keys, seq) ==
    LET pairs == [i \in 1..Len(seq) |-> [key |-> keys[i], val |-> seq[i]]]
        out == SortedKeyed(pairs)
    IN [i \in 1..Len(seq) |-> out[i].val]

DtKey(evs) == [i \in 1..Len(evs) |-> evs[i].dt]

\* merge_slug
MergedEventsMutant(e1, e2) == e1 \o e2

MergedEventsLossy(e1, e2) == SortedBy(DtKey(e2), e2)

MergedEvents(e1, e2) == SortedBy(DtKey(e1 \o e2), e1 \o e2)

merge_slugMutant(h, slug_key, icao_key) ==
    LET merged == MergedEvents(h[slug_key].events, h[icao_key].events)
    IN Put(h, icao_key,
           [h[icao_key] EXCEPT !.events = merged, !.current = Last(merged).status])

merge_slug(h, slug_key, icao_key) ==
    LET merged == MergedEvents(h[slug_key].events, h[icao_key].events)
    IN Del(Put(h, icao_key,
               [h[icao_key] EXCEPT !.events = merged, !.current = Last(merged).status]),
           slug_key)

\* int() of the last segment of the link: digits give the number, anything
\* else raises ValueError
Digits == << "0", "1", "2", "3", "4", "5", "6", "7", "8", "9" >>

IsNumber(seg) == Len(seg) >= 1 /\ \A n \in 1..Len(seg) : seg[n] \in Range(Digits)

RECURSIVE IntOf(_)
IntOf(seg) ==
    IF seg = << >> THEN 0
    ELSE 10 * IntOf(SubSeq(seg, 1, Len(seg) - 1))
         + (CHOOSE d \in 0..9 : Digits[d + 1] = Last(seg))

msg_idMutant(item) == IF item.published = None THEN 0 ELSE item.published[1]

\* msg_id; item.link is the last "/" segment of the item's link
msg_id(item) == IF IsNumber(item.link) THEN IntOf(item.link) ELSE 0

\* the body of "for key, name, icao in extract_airports(txt)" for one triple
Reconcile(h, c) ==
    IF c.icao # None /\ c.icao \in DOMAIN h /\ slug(c.name) \in DOMAIN h
    THEN merge_slug(h, slug(c.name), c.icao)
    ELSE h

ApplyCandidateMutant(h, c, dt, status) ==
    LET h1 == Reconcile(h, c)
        rec == IF c.key \in DOMAIN h1 THEN h1[c.key]
               ELSE [name |-> c.name, icao |-> c.icao, events |-> << >>]
    IN Put(h1, c.key,
           [name |-> rec.name,
            icao |-> rec.icao,
            events |-> Append(rec.events, [dt |-> dt, status |-> status]),
            current |-> IF rec.events # << >> /\ Last(rec.events).dt > dt
                        THEN rec.current ELSE status])

ApplyCandidate(h, c, dt, status) ==
    LET h1 == Reconcile(h, c)
        rec == IF c.key \in DOMAIN h1 THEN h1[c.key]
               ELSE [name |-> c.name, icao |-> c.icao, events |-> << >>]
        adopt == rec.icao = None /\ c.icao # None
        move == adopt /\ c.key # c.icao
        key == IF move THEN c.icao ELSE c.key
        h2 == IF move THEN Del(h1, c.key) ELSE h1
    IN Put(h2, key,
           [name |-> rec.name,
            icao |-> IF adopt THEN c.icao ELSE rec.icao,
            events |-> Append(rec.events, [dt |-> dt, status |-> status]),
            current |-> status])

RECURSIVE ApplyAll(_, _, _, _, _)
ApplyAll(h, cands, k, dt, status) ==
    IF k > Len(cands) THEN h
    ELSE ApplyAll(ApplyCandidate(h, cands[k], dt, status), cands, k + 1, dt, status)

\* history of the for loop over the triples: the merge_slug calls it makes, each
\* with the two logs it read and the store as the call left it
RECURSIVE MergesOf(_, _, _, _, _)
MergesOf(h, cands, k, dt, status) ==
    IF k > Len(cands) THEN << >>
    ELSE (IF Reconcile(h, cands[k]) # h
          THEN << [slug_key |-> slug(cands[k].name), icao_key |-> cands[k].icao,
                   e1 |-> h[slug(cands[k].name)].events,
                   e2 |-> h[cands[k].icao].events,
                   before |-> h,
                   after |-> Reconcile(h, cands[k])] >>
          ELSE << >>)
         \o MergesOf(ApplyCandidate(h, cands[k], dt, status), cands, k + 1, dt, status)

(***************************************************************************)
(* Inputs: texts, items, feeds and stored files.                           *)
(***************************************************************************)
Text(closed, opened, codes, words) ==
    [closed |-> closed, opened |-> opened, codes |-> codes, words |-> words]

\* what a text says about airports: codes found by RX_CODE and the text's words
BareK == [codes |-> << >>, words |-> {Kaluga}]
CodeK == [codes |-> << [name |-> Kaluga, icao |-> UUBC] >>, words |-> {Kaluga, UUBC}]
CodeO == [codes |-> << [name |-> Omsk, icao |-> UNOO] >>, words |-> {Omsk, UNOO}]
BareO == [codes |-> << >>, words |-> {Omsk}]
BareKCodeO == [codes |-> << [name |-> Omsk, icao |-> UNOO] >>, words |-> {Kaluga, Omsk, UNOO}]
\* a text that gives a name of the directory another identifier than the
\* directory does, "Kaluga (UNOO)", and names Omsk without a code
CodeKAsO == [codes |-> << [name |-> Kaluga, icao |-> UNOO] >>, words |-> {Kaluga, UNOO, Omsk}]

Item(link, published, closed, opened, mention) ==
    [link |-> link, published |-> published,
     text |-> Text(closed, opened, mention.codes, mention.words)]

\* a classified item with a timestamp that does not parse, an item that
\* matches neither pattern although it names an airport with its code, an
\* item that matches both patterns, and one with the conflicting code
BadDateItem == Item(<< "1" >>, None, TRUE, FALSE, BareK)
NoSignalItem == Item(<< "1" >>, << Stamp(0) >>, FALSE, FALSE, CodeO)
BothSignalsItem == Item(<< "1" >>, << Stamp(0) >>, TRUE, TRUE, BareK)
OtherCodeItem == Item(<< "1" >>, << Stamp(0) >>, TRUE, FALSE, CodeKAsO)

\* items of Spec: every mention, either signal, two timestamps, one link id
ItemsSpec ==
    {Item(<< "1" >>, << t >>, c, ~c, m) :
        t \in {Stamp(0), Stamp(1)}, c \in BOOLEAN,
        m \in {BareK, CodeK, CodeO, BareO, BareKCodeO}}
    \cup {BadDateItem, NoSignalItem, BothSignalsItem, OtherCodeItem}

\* items of SpecRuns: one mention, either signal, two timestamps, link ids
\* 1 and 2 and a link that ends in no number
ItemsRuns ==
    {Item(l, << t >>, c, ~c, BareK) :
        l \in {<< "1" >>, << "2" >>, << "x" >>},
        t \in {Stamp(0), Stamp(1)}, c \in BOOLEAN}
    \cup {BadDateItem, NoSignalItem}

\* a stored record with a one-event log
Stored(name, icao, dt, status) ==
    [name |-> name, icao |-> icao, current |-> status,
     events |-> << [dt |-> iso(dt), status |-> status] >>]

\* files of Spec: no file, or records left by earlier runs under an airport's
\* provisional slug (no identifier), under its identifier, or both
FilesFor(name, icao) ==
    LET slugRecs == {Stored(name, None, t, "closed") : t \in {Stamp(0), Stamp(1)}}
        icaoRecs == {Stored(name, icao, t, "open") : t \in {Stamp(0), Stamp(1)}}
    IN {[k \in {slug(name)} |-> r] : r \in slugRecs}
       \cup {[k \in {icao} |-> r] : r \in icaoRecs}
       \cup {[k \in {slug(name), icao} |-> IF k = icao THEN r2 ELSE r1] :
                r1 \in slugRecs, r2 \in icaoRecs}

\* for the name the seed table does not know, one file of each kind
FilesOmsk ==
    {[k \in {slug(Omsk)} |-> Stored(Omsk, None, Stamp(1), "closed")],
     [k \in {slug(Omsk), UNOO} |->
        IF k = UNOO THEN Stored(Omsk, UNOO, Stamp(0), "open")
        ELSE Stored(Omsk, None, Stamp(1), "closed")]}

FilesSpec == {<< >>} \cup FilesFor(Kaluga, UUBC) \cup FilesOmsk

FilesRuns == {<< >>} \cup FilesFor(Kaluga, UUBC)

\* wall-clock readings of build_site's reconstructions
Nows == {Stamp(1), Stamp(MaxT) + 3600}

(***************************************************************************)
(* The run of the script: process() (src/parser.py lines 179-205).         *)
(***************************************************************************)
InitWith(files, items) ==
    /\ store \in files
    /\ feed \in SeqsUpTo(items, MaxItems)
    /\ hist = << >>
    /\ ICAO_MAP = SeedMap
    /\ NAME_RE = SeedRe
    /\ pc = "idle"
    /\ entries = << >>
    /\ pos = 1
    /\ clock = << >>
    /\ calls = 0
    /\ run = 0
    /\ loaded = << >>
    /\ merges = << >>
    /\ touched = {}
    /\ seen = {}
    /\ writes = 0
    /\ reconciled = {}

Init == InitWith(FilesSpec, ItemsSpec)

InitRuns == InitWith(FilesRuns, ItemsRuns)

\* hist = load_hist(); fp = feedparser.parse(FEED_URL); with no entries the run
\* goes straight to build_site, else into the loop over the sorted entries
SortedEntries(fp) == SortedBy([i \in 1..Len(fp) |-> msg_id(fp[i])], fp)

Load ==
    /\ pc = "idle"
    /\ hist' = load_hist(store)
    /\ loaded' = store
    /\ run' = run + 1
    /\ IF feed = << >>
       THEN pc' = "build" /\ entries' = << >>
       ELSE pc' = "loop" /\ entries' = SortedEntries(feed)
    /\ pos' = 1
    /\ UNCHANGED <<store, feed, ICAO_MAP, NAME_RE, clock, calls, merges, touched, seen,
                   writes, reconciled>>

AfterItemMutant == "save"

AfterItem == IF pos + 1 > Len(entries) THEN "save" ELSE "loop"

\* if not status: continue
SkipItem ==
    /\ pc = "loop"
    /\ classify(entries[pos].text) = None
    /\ pos' = pos + 1
    /\ pc' = AfterItem
    /\ UNCHANGED <<store, feed, hist, ICAO_MAP, NAME_RE, entries, clock, calls,
                   run, loaded, merges, touched, seen, writes, reconciled>>

\* dparse.parse(e["published"]) raises: nothing in process() catches it
ParseFails ==
    /\ pc = "loop"
    /\ classify(entries[pos].text) # None
    /\ entries[pos].published = None
    /\ pc' = "crashed"
    /\ UNCHANGED <<store, feed, hist, ICAO_MAP, NAME_RE, entries, pos, clock, calls,
                   run, loaded, merges, touched, seen, writes, reconciled>>

\* one classified item with a timestamp: every triple extract_airports returns
\* is reconciled and gets the item's event appended
ProcessItem ==
    /\ pc = "loop"
    /\ classify(entries[pos].text) # None
    /\ entries[pos].published # None
    /\ LET status == classify(entries[pos].text)[1]
           dt_msk == entries[pos].published[1]
           ex == extract_airports(entries[pos].text, ICAO_MAP, NAME_RE)
       IN /\ hist' = ApplyAll(hist, ex.cands, 1, dt_msk, status)
          /\ ICAO_MAP' = ex.map
          /\ NAME_RE' = ex.re
          /\ merges' = MergesOf(hist, ex.cands, 1, dt_msk, status)
          /\ touched' = touched \cup
                {IF ex.cands[n].icao # None THEN ex.cands[n].icao ELSE ex.cands[n].key :
                    n \in 1..Len(ex.cands)}
          /\ seen' = seen \cup
                {<< ex.cands[n].name, ex.cands[n].icao >> :
                    n \in {m \in 1..Len(ex.cands) : ex.cands[m].icao # None}}
          /\ reconciled' = reconciled \cup
                {<< m.slug_key, m.icao_key >> :
                    m \in Range(MergesOf(hist, ex.cands, 1, dt_msk, status))}
    /\ pos' = pos + 1
    /\ pc' = AfterItem
    /\ UNCHANGED <<store, feed, entries, clock, calls, run, loaded, writes>>

\* save_hist(hist)
Save ==
    /\ pc = "save"
    /\ store' = save_hist(hist)
    /\ writes' = writes + 1
    /\ pc' = "build"
    /\ UNCHANGED <<feed, hist, ICAO_MAP, NAME_RE, entries, pos, clock, calls,
                   run, loaded, merges, touched, seen, reconciled>>

\* build_site(hist): with an empty hist only the placeholder pages are written,
\* else every record is reconstructed; the loop's readings of the clock, taken
\* within one pass over a few records, are one reading of the model
BuildSite ==
    /\ pc = "build"
    /\ IF DOMAIN hist = {}
       THEN UNCHANGED <<hist, clock, calls>>
       ELSE /\ \E now \in Nows :
                 /\ hist' = [k \in DOMAIN hist |-> recompute_periods(hist[k], now)]
                 /\ clock' = [k \in DOMAIN hist |-> now]
            /\ calls' = calls + 1
    /\ pc' = "done"
    /\ UNCHANGED <<store, feed, ICAO_MAP, NAME_RE, entries, pos,
                   run, loaded, merges, touched, seen, writes, reconciled>>

\* the script is started again, in a new interpreter, on the same feed
Restart ==
    /\ pc \in {"done", "crashed"}
    /\ run < MaxRuns
    /\ pc' = "idle"
    /\ hist' = << >>
    /\ ICAO_MAP' = SeedMap
    /\ NAME_RE' = SeedRe
    /\ entries' = << >>
    /\ pos' = 1
    /\ clock' = << >>
    /\ calls' = 0
    /\ merges' = << >>
    /\ touched' = {}
    /\ seen' = {}
    /\ writes' = 0
    /\ reconciled' = {}
    /\ UNCHANGED <<store, feed, run, loaded>>

Next == Load \/ SkipItem \/ ParseFails \/ ProcessItem \/ Save \/ BuildSite

Spec == Init /\ [][Next]_vars

NextRuns == Next \/ Restart

SpecRuns == InitRuns /\ [][NextRuns]_vars

(***************************************************************************)
(* Claims about interval reconstruction, checked under SpecPeriods.        *)
(***************************************************************************)
IsOngoing(p) == p.to = Ongoing

ClosedPeriods(ps) == SelectSeq(ps, LAMBDA p : ~IsOngoing(p))

OngoingPeriods(ps) == SelectSeq(ps, IsOngoing)

SortedLog(log) == \A a \in 1..Len(log) : \A b \in a..Len(log) : log[a].dt <= log[b].dt

Reconstructed(k) == k \in DOMAIN hist /\ "periods" \in DOMAIN hist[k]

\* The reference scan of the claim: open is 0 while no period is open, else the
\* index of the closed event that opened the period; the result is the list of
\* <<start, end, duration>> of the periods closed from event k on.
RECURSIVE RefScan(_, _, _)
RefScan(log, k, open) ==
    IF k > Len(log) THEN << >>
    ELSE CASE log[k].status = "closed" /\ open = 0 -> RefScan(log, k + 1, k)
           [] log[k].status = "open" /\ open # 0 ->
                << << log[open].dt, log[k].dt, log[k].dt - log[open].dt >> >>
                    \o RefScan(log, k + 1, 0)
           [] log[k].status = "open" /\ open = 0 -> RefScan(log, k + 1, open)
           [] log[k].status = "closed" /\ open # 0 -> RefScan(log, k + 1, open)

RefRendered(log) ==
    LET ref == RefScan(log, 1, 0)
    IN [n \in 1..Len(ref) |->
          [from |-> fmt(ref[n][1]), to |-> fmt(ref[n][2]), dur |-> duration_str(ref[n][3])]]

OpenerAtEnd(log) ==
    IF Len(log) = 0 \/ Last(log).status = "open" THEN 0
    ELSE CHOOSE a \in 1..Len(log) :
            /\ \A b \in a..Len(log) : log[b].status = "closed"
            /\ (a > 1 => log[a - 1].status = "open")

\* C6: recompute_periods emits an ongoing period if and only if the scan ends
\* with a period still open; there is at most one, it is the last element of the
\* periods, its start is the time of the closed event that opened it and its
\* duration is taken against the wall clock read by the call; log [(t1, closed)]
\* yields exactly one period, from t1 and ongoing.
C6_DanglingClosure ==
    \A k \in DOMAIN hist :
        Reconstructed(k) =>
            LET log == hist[k].events
                ps == hist[k].periods
                on == OngoingPeriods(ps)
                a == OpenerAtEnd(log)
            IN /\ (Len(on) >= 1) <=> (a # 0)
               /\ Len(on) <= 1
               /\ Len(on) = 1 =>
                    /\ IsOngoing(Last(ps))
                    /\ Last(ps).from = fmt(log[a].dt)
                    /\ Last(ps).dur = duration_str(clock[k] - log[a].dt)
               /\ (Len(log) = 1 /\ log[1].status = "closed") =>
                    ps = << [from |-> fmt(log[1].dt), to |-> Ongoing,
                             dur |-> duration_str(clock[k] - log[1].dt)] >>

\* a log with a closed period followed by a dangling closure has been reconstructed
C6_Witness ==
    \E k \in DOMAIN hist :
        /\ Reconstructed(k)
        /\ Len(hist[k].periods) = 2
        /\ ~IsOngoing(hist[k].periods[1])
        /\ IsOngoing(hist[k].periods[2])

\* C7: a further call of recompute_periods on a record that already carries
\* derived periods yields the same closed periods and the same start of the
\* ongoing period, replaces the periods (their number does not grow), and every
\* call leaves the event log, current status, name and identifier unchanged.
C7_ReconstructionIdempotent ==
    [][\A k \in DOMAIN hist :
          /\ k \in DOMAIN hist'
          /\ hist'[k].events = hist[k].events
          /\ hist'[k].current = hist[k].current
          /\ hist'[k].name = hist[k].name
          /\ hist'[k].icao = hist[k].icao
          /\ Reconstructed(k) =>
                /\ ClosedPeriods(hist'[k].periods) = ClosedPeriods(hist[k].periods)
                /\ Len(hist'[k].periods) = Len(hist[k].periods)
                /\ [n \in 1..Len(OngoingPeriods(hist'[k].periods)) |->
                        OngoingPeriods(hist'[k].periods)[n].from]
                   = [n \in 1..Len(OngoingPeriods(hist[k].periods)) |->
                        OngoingPeriods(hist[k].periods)[n].from]]_vars

\* a record with a closed and an ongoing period was reconstructed twice, the
\* second time at another wall-clock reading than the log's last event
C7_Witness ==
    \E k \in DOMAIN hist :
        /\ calls = 2
        /\ Reconstructed(k)
        /\ Len(ClosedPeriods(hist[k].periods)) >= 1
        /\ Len(OngoingPeriods(hist[k].periods)) = 1
        /\ clock[k] # Last(hist[k].events).dt

(***************************************************************************)
(* Claims about the run of the script, checked under Spec and SpecRuns.    *)
(***************************************************************************)
Classified(item) == classify(item.text) # None

\* the next step is the processing of a classified item with a timestamp
AtProcessItem ==
    pc = "loop" /\ Classified(entries[pos]) /\ entries[pos].published # None

NextCands == extract_airports(entries[pos].text, ICAO_MAP, NAME_RE).cands

NextEvent == [dt |-> entries[pos].published[1], status |-> classify(entries[pos].text)[1]]

Count(seq, x) == Cardinality({n \in 1..Len(seq) : seq[n] = x})

SamePeriodsAndStatus(s1, s2) ==
    \A k \in DOMAIN s1 \cap DOMAIN s2 :
          /\ s2[k].current = s1[k].current
          /\ ClosedPeriods(PeriodsOf(load_hist(s2)[k].events, Stamp(0)))
               = ClosedPeriods(PeriodsOf(load_hist(s1)[k].events, Stamp(0)))

\* C1: when the script has run twice over the same feed, the file S2 the second
\* run saved has, for every key of both files, the current status and the closed
\* periods of the file S1 the first run saved (which the second run loaded).
\* Stated for files S1 whose records are all under their identifier, so that no
\* provisional record left beside its canonical one (C3, C4) is involved.
C1_IdempotentReprocessing ==
    (/\ run = 2
     /\ pc = "done"
     /\ feed # << >>
     /\ \A k \in DOMAIN loaded : loaded[k].icao = k) =>
        SamePeriodsAndStatus(loaded, store)

\* C2: when the store holds a record under slug(N) with events E1 and one under
\* I with events E2 and the item's first triple is (I, N, I), merge_slug is
\* called on them; and every merge_slug call leaves the slug key absent and the
\* other records as they were, and under I the same record with its log set to
\* E1 and E2 together, sorted ascending by timestamp, and its current status set
\* to the status of the last of them, an event with the greatest timestamp.
C2_ReconciliationMerge ==
    [][AtProcessItem =>
         /\ (/\ Len(NextCands) >= 1
             /\ NextCands[1].icao # None
             /\ NextCands[1].key = NextCands[1].icao
             /\ NextCands[1].icao \in DOMAIN hist
             /\ slug(NextCands[1].name) \in DOMAIN hist) =>
                /\ Len(merges') >= 1
                /\ merges'[1].slug_key = slug(NextCands[1].name)
                /\ merges'[1].icao_key = NextCands[1].icao
                /\ merges'[1].e1 = hist[slug(NextCands[1].name)].events
                /\ merges'[1].e2 = hist[NextCands[1].icao].events
                /\ merges'[1].before = hist
         /\ \A n \in 1..Len(merges') :
               LET m == merges'[n]
                   log == m.after[m.icao_key].events
               IN /\ DOMAIN m.after = DOMAIN m.before \ {m.slug_key}
                  /\ m.icao_key \in DOMAIN m.after
                  /\ \A k \in DOMAIN m.after \ {m.icao_key} : m.after[k] = m.before[k]
                  /\ Len(log) = Len(m.e1) + Len(m.e2)
                  /\ \A ev \in Range(m.e1) \cup Range(m.e2) :
                        Count(log, ev) = Count(m.e1, ev) + Count(m.e2, ev)
                  /\ SortedLog(log)
                  /\ m.after[m.icao_key].current = Last(log).status
                  /\ \A ev \in Range(log) : ev.dt <= Last(log).dt
                  /\ m.after[m.icao_key].name = m.before[m.icao_key].name
                  /\ m.after[m.icao_key].icao = m.before[m.icao_key].icao]_vars

\* an item's triple found both records and merge_slug put the slug record's
\* earlier event before the identifier record's event
C2_Witness ==
    /\ Len(merges) = 1
    /\ Len(merges[1].e1) = 1
    /\ Len(merges[1].e2) = 1
    /\ merges[1].e1[1].dt > merges[1].e2[1].dt
    /\ merges[1].after[merges[1].icao_key].events = merges[1].e2 \o merges[1].e1

\* C3: once an item that yielded a triple with name N and identifier I has been
\* handled, the store does not hold both a record under slug(N) and one under I.
C3_IdentityInvariant ==
    \A ni \in seen : ~(slug(ni[1]) \in DOMAIN hist /\ ni[2] \in DOMAIN hist)

\* C4: when the store holds a record without identifier under slug(N), none
\* under I, and the item yields the triple for N with identifier I, then after
\* the item the slug key is absent, the record is under I with its earlier
\* events followed by the new event and with identifier I, and no other key
\* was added.
C4_PromotionInPlace ==
    [][(/\ AtProcessItem
        /\ Len(NextCands) = 1
        /\ NextCands[1].icao # None
        /\ slug(NextCands[1].name) \in DOMAIN hist
        /\ NextCands[1].icao \notin DOMAIN hist) =>
          LET sk == slug(NextCands[1].name)
              ik == NextCands[1].icao
          IN hist[sk].icao = None =>
                /\ DOMAIN hist' = (DOMAIN hist \ {sk}) \cup {ik}
                /\ hist'[ik].events = Append(hist[sk].events, NextEvent)
                /\ hist'[ik].icao = ik]_vars

\* the number at the end of a link of the model's feeds, read off the link
LinkNumber(item) ==
    CASE item.link = << "1" >> -> 1
      [] item.link = << "2" >> -> 2
      [] item.link = << "3" >> -> 3
      [] OTHER -> 0

\* seq2 holds the items of seq1 in non-decreasing order of link number, items
\* of equal number in their order in seq1
StableByLink(seq1, seq2) ==
    /\ Len(seq1) = Len(seq2)
    /\ \E f \in [1..Len(seq2) -> 1..Len(seq1)] :
          /\ \A a, b \in 1..Len(seq2) : a # b => f[a] # f[b]
          /\ \A a \in 1..Len(seq2) : seq2[a] = seq1[f[a]]
          /\ \A a, b \in 1..Len(seq2) :
                a < b => \/ LinkNumber(seq2[a]) < LinkNumber(seq2[b])
                         \/ LinkNumber(seq2[a]) = LinkNumber(seq2[b]) /\ f[a] < f[b]

\* the name directory as the first n items of the run leave it
RECURSIVE DirAfter(_)
DirAfter(n) ==
    IF n = 0 THEN [map |-> SeedMap, re |-> SeedRe]
    ELSE LET d == DirAfter(n - 1)
         IN IF Classified(entries[n]) /\ entries[n].published # None
            THEN LET ex == extract_airports(entries[n].text, d.map, d.re)
                 IN [map |-> ex.map, re |-> ex.re]
            ELSE d

\* the items of the run that resolved to key k, by their place in the run
ResolvedTo(k) ==
    {n \in 1..Len(entries) :
        /\ Classified(entries[n])
        /\ entries[n].published # None
        /\ \E c \in Range(extract_airports(entries[n].text,
                                           DirAfter(n - 1).map, DirAfter(n - 1).re).cands) :
              c.key = k}

MaxOf(S) == CHOOSE x \in S : \A y \in S : y <= x

RunCompleted == pc \in {"save", "build", "done"} /\ entries # << >>

LatestStatuses(log) ==
    {log[n].status : n \in {m \in 1..Len(log) : \A j \in 1..Len(log) : log[j].dt <= log[m].dt}}

C9_SortedBeforeReconstruction ==
    (pc = "build" /\ \A k \in DOMAIN loaded : SortedLog(load_hist(loaded)[k].events)) =>
        \A k \in DOMAIN hist : SortedLog(hist[k].events)

\* C10: a classified item whose timestamp does not parse is skipped: no event
\* is appended for it and the run goes on to the next item or to the save.
C10_BadTimestampSkipped ==
    [][(pc = "loop" /\ Classified(entries[pos]) /\ entries[pos].published = None) =>
          /\ hist' = hist
          /\ pos' = pos + 1
          /\ pc' \in {"loop", "save"}]_vars

(***************************************************************************)
(* Claims about the save, the classifier and the resolver.                 *)
(***************************************************************************)
\* C11: within a run status.json is written only by the save_hist that follows
\* the loop, after every item has been handled in memory, and a completed run
\* with items has written it exactly once; until then, in a run that aborted,
\* and in a run over an empty feed, the file is as load_hist read it.
C11_WrittenOnlyByFinalSave ==
    [][/\ writes' # writes =>
            /\ pc = "save"
            /\ pos > Len(entries)
            /\ writes' = writes + 1
            /\ store' = save_hist(hist)
       /\ writes' = writes => store' = store
       /\ pc' \in {"loop", "save", "crashed"} => (writes' = 0 /\ store' = loaded')
       /\ (pc' \in {"build", "done"} /\ entries' = << >>) => (writes' = 0 /\ store' = loaded')
       /\ (pc' \in {"build", "done"} /\ entries' # << >>) => writes' = 1]_vars

\* a run over two items changed the in-memory store and aborted on the second
\* item: the file is still the loaded one
C11_Witness ==
    /\ pc = "crashed"
    /\ pos = 2
    /\ hist # load_hist(loaded)
    /\ store = loaded

\* the key a triple's event is stored under
KeyOf(c) == IF c.icao # None THEN c.icao ELSE c.key

\* C12: a text that matches the closed pattern is classified closed whether or
\* not it matches the opened pattern, a text that matches only the opened
\* pattern is classified open, and the event appended for the item carries that
\* status; a text that matches neither has no status, and process() then leaves
\* the store and the name directory (names and patterns) as they were.
C12_ClassifierPriority ==
    [][pc = "loop" =>
         LET t == entries[pos].text
         IN /\ t.closed => classify(t) = << "closed" >>
            /\ (t.opened /\ ~t.closed) => classify(t) = << "open" >>
            /\ (~t.opened /\ ~t.closed) =>
                  /\ classify(t) = None
                  /\ hist' = hist
                  /\ ICAO_MAP' = ICAO_MAP
                  /\ NAME_RE' = NAME_RE
                  /\ touched' = touched
            /\ ((t.opened \/ t.closed) /\ entries[pos].published # None) =>
                  \A k \in {KeyOf(c) : c \in Range(NextCands)} :
                      /\ k \in DOMAIN hist'
                      /\ Last(hist'[k].events).status
                            = (IF t.closed THEN "closed" ELSE "open")
                      /\ hist'[k].current = (IF t.closed THEN "closed" ELSE "open")]_vars

\* an item whose text matches both patterns was processed and its event, the
\* last of the airport's log, is a closed one
C12_Witness ==
    /\ pos = 2
    /\ pc \in {"loop", "save"}
    /\ entries[1].text.closed
    /\ entries[1].text.opened
    /\ UUBC \in touched
    /\ Last(hist[UUBC].events).status = "closed"
    /\ hist[UUBC].current = "closed"

\* the run started from no file and handled two items: first a text classified
\* closed with the one identifier-bearing mention "N (I)" of a name the seed
\* directory maps to I, then, later in time, a text classified open that names
\* N without a code
BareAfterCode ==
    /\ loaded = << >>
    /\ Len(entries) = 2
    /\ entries[1].published # None
    /\ entries[2].published # None
    /\ entries[1].published[1] < entries[2].published[1]
    /\ classify(entries[1].text) = << "closed" >>
    /\ classify(entries[2].text) = << "open" >>
    /\ Len(entries[1].text.codes) = 1
    /\ entries[1].text.codes[1] \in Range(SeedMap)
    /\ entries[2].text.codes = << >>
    /\ entries[2].text.words = {entries[1].text.codes[1].name}

\* C13: in that scenario the store ends with exactly one record, under I and
\* not under slug(N), whose log is [(t1, closed), (t2, open)] and whose current
\* status is open, and its reconstruction is exactly one closed period from t1
\* to t2.
C13_BareNameResolvesToKey ==
    (BareAfterCode /\ pc \in {"save", "build", "done"}) =>
        LET N == entries[1].text.codes[1].name
            I == entries[1].text.codes[1].icao
            t1 == entries[1].published[1]
            t2 == entries[2].published[1]
        IN /\ DOMAIN hist = {I}
           /\ slug(N) \notin DOMAIN hist
           /\ hist[I].events = << [dt |-> t1, status |-> "closed"],
                                  [dt |-> t2, status |-> "open"] >>
           /\ hist[I].current = "open"
           /\ hist[I].icao = I
           /\ pc = "done" =>
                 hist[I].periods = << [from |-> fmt(t1), to |-> fmt(t2),
                                       dur |-> duration_str(t2 - t1)] >>
           /\ pc \in {"build", "done"} => DOMAIN store = {I}

\* the scenario ran to its end: the site was built from the one record
C13_Witness ==
    /\ BareAfterCode
    /\ pc = "done"
    /\ Len(hist[UUBC].periods) = 1
    /\ Len(hist[UUBC].events) = 2

\* C14: after extract_airports has handled a text with an identifier-bearing
\* mention of name N with identifier I, the name directory maps N to I, whether
\* or not it mapped N before, and the bare-name pass resolves N to key I: every
\* returned triple named N has key I.
C14_DirectoryOverwrittenByMention ==
    [][AtProcessItem =>
         \A m \in Range(entries[pos].text.codes) :
             /\ MapGet(ICAO_MAP', m.name) = m.icao
             /\ \A c \in Range(NextCands) : c.name = m.name => c.key = m.icao]_vars

NamesOf(map) == {map[n].name : n \in 1..Len(map)}

\* C15: no step of a run removes a name from the name directory: the names of
\* the directory before a step are names of the directory after it.
C15_DirectoryMonotone ==
    [][NamesOf(ICAO_MAP) \subseteq NamesOf(ICAO_MAP')]_vars

\* two items were handled and the directory has grown by a name
C15_Witness ==
    /\ pos = 3
    /\ Len(ICAO_MAP) = 2
    /\ NamesOf(ICAO_MAP) = {Kaluga, Omsk}

\* the triples the two passes of extract_airports find for the next item
CodeFound ==
    CodePass(entries[pos].text.codes, 1,
             [found |-> << >>, map |-> ICAO_MAP, re |-> NAME_RE])

BareFound ==
    BarePass([n \in 1..Len(CodeFound.map) |-> CodeFound.map[n].name]
                \o [n \in 1..Len(CodeFound.found) |-> CodeFound.found[n].name],
             1, entries[pos].text, CodeFound.map, CodeFound.re)

\* C16: extract_airports returns at most one triple per key, and for a key that
\* both the identifier-bearing pass and the bare-name pass found a triple for,
\* the returned triple is one the identifier-bearing pass found.
C16_CodeMentionWinsDedup ==
    [][AtProcessItem =>
         /\ \A a, b \in 1..Len(NextCands) :
               NextCands[a].key = NextCands[b].key => a = b
         /\ \A c \in Range(NextCands) :
               (/\ \E x \in Range(CodeFound.found) : x.key = c.key
                /\ \E y \in Range(BareFound) : y.key = c.key) =>
                    c \in Range(CodeFound.found)]_vars

(***************************************************************************)
(* Claims about reconciliation, the append and the event logs.             *)
(***************************************************************************)
\* C17: once merge_slug has merged the record under slug(N) into the record
\* under I, the slug key stays absent and the record under I stays; handling a
\* further triple for N and I calls merge_slug for no such pair again and
\* removes no record, and changes the record under I only by appending the
\* item's event and setting the current status to the event's status.
C17_ReconciliationIdempotent ==
    [][/\ \A p \in reconciled' : p[1] \notin DOMAIN hist' /\ p[2] \in DOMAIN hist'
       /\ AtProcessItem =>
            \A c \in Range(NextCands) :
                (c.icao # None /\ << slug(c.name), c.icao >> \in reconciled) =>
                    /\ \A m \in Range(merges') :
                          ~(m.slug_key = slug(c.name) /\ m.icao_key = c.icao)
                    /\ DOMAIN hist \ DOMAIN hist' \subseteq
                          {m.slug_key : m \in Range(merges')}
                    /\ hist'[c.icao].events = Append(hist[c.icao].events, NextEvent)
                    /\ hist'[c.icao].current = NextEvent.status
                    /\ hist'[c.icao].name = hist[c.icao].name
                    /\ hist'[c.icao].icao = hist[c.icao].icao]_vars

\* the first item merged the provisional record of Kaluga into the record
\* under UUBC and the second item named Kaluga again
C17_Witness ==
    /\ pos = 3
    /\ << slug(Kaluga), UUBC >> \in reconciled
    /\ merges = << >>
    /\ Len(hist[UUBC].events) = 4
    /\ slug(Kaluga) \in DOMAIN load_hist(loaded)

\* the log under key k as the item's merge_slug calls left it, before the
\* item's own event is appended: the merged log when a call merged into k,
\* else the log as it was, empty when the store held no record under k
LogBeforeAppend(k, ms, h) ==
    IF \E n \in 1..Len(ms) : ms[n].icao_key = k
    THEN ms[CHOOSE n \in 1..Len(ms) : ms[n].icao_key = k].after[k].events
    ELSE IF k \in DOMAIN h THEN h[k].events ELSE << >>

\* C18: for every key a classified item resolves to, process() appends exactly
\* one event, the item's timestamp and status, at the end of the log under that
\* key, creating the record when there is none, and sets the current status to
\* the item's status whatever the earlier status and the timestamps are; the
\* other records keep their logs; and every record touched in the run has as
\* current status the status of the last entry of its log.
C18_LastWriteWinsAppend ==
    [][/\ AtProcessItem =>
            /\ \A c \in Range(NextCands) :
                  /\ KeyOf(c) \in DOMAIN hist'
                  /\ hist'[KeyOf(c)].events
                        = Append(LogBeforeAppend(KeyOf(c), merges', hist), NextEvent)
                  /\ hist'[KeyOf(c)].current = NextEvent.status
            /\ \A k \in DOMAIN hist' \ {KeyOf(c) : c \in Range(NextCands)} :
                  k \in DOMAIN hist /\ hist'[k] = hist[k]
       /\ \A k \in touched' :
            /\ k \in DOMAIN hist'
            /\ hist'[k].current = Last(hist'[k].events).status]_vars

\* an item with an earlier timestamp and the other status was appended after a
\* later event: the current status is the item's
C18_Witness ==
    \E k \in touched :
        /\ pc \in {"loop", "save"}
        /\ Len(hist[k].events) >= 2
        /\ hist[k].events[Len(hist[k].events) - 1].dt > Last(hist[k].events).dt
        /\ hist[k].events[Len(hist[k].events) - 1].status # Last(hist[k].events).status
        /\ hist[k].current = Last(hist[k].events).status

\* the number of entries equal to ev in all the logs of store h
RECURSIVE TotalOver(_, _, _)
TotalOver(h, keys, ev) ==
    IF keys = {} THEN 0
    ELSE LET k == CHOOSE x \in keys : TRUE
         IN Count(h[k].events, ev) + TotalOver(h, keys \ {k}, ev)

Total(h, ev) == TotalOver(h, DOMAIN h, ev)

AllEvents(h) == UNION {Range(h[k].events) : k \in DOMAIN h}

RECURSIVE SizeOver(_, _)
SizeOver(h, keys) ==
    IF keys = {} THEN 0
    ELSE LET k == CHOOSE x \in keys : TRUE
         IN Len(h[k].events) + SizeOver(h, keys \ {k})

\* C19: every event that is in some record's log before a step is, with its
\* timestamp and status and as many times, in some record's log after it, so
\* the total number of events of the store does not decrease; the processing
\* of an item adds exactly one event for each key the item resolves to.
C19_NoEventLost ==
    [][/\ \A ev \in AllEvents(hist) : Total(hist', ev) >= Total(hist, ev)
       /\ SizeOver(hist', DOMAIN hist') >= SizeOver(hist, DOMAIN hist)
       /\ AtProcessItem =>
            SizeOver(hist', DOMAIN hist') = SizeOver(hist, DOMAIN hist) + Len(NextCands)]_vars

\* an item's merge_slug call moved the provisional record's events under the
\* identifier: the slug key is gone and all the events are still there
C19_Witness ==
    /\ Len(merges) = 1
    /\ Len(merges[1].e1) >= 1
    /\ merges[1].slug_key \notin DOMAIN hist
    /\ \A ev \in Range(merges[1].e1) : ev \in Range(hist[merges[1].icao_key].events)
    /\ SizeOver(hist, DOMAIN hist) = SizeOver(merges[1].before, DOMAIN merges[1].before) + 1

\* C20: after a run and build_site's reconstruction, every record touched in
\* the run, and every untouched record whose stored current status is the
\* status of the last entry of its log, has an ongoing period if and only if
\* its current status is closed.
C20_StatusAndPeriodsAgree ==
    pc = "done" =>
        \A k \in DOMAIN hist :
            (\/ k \in touched
             \/ /\ k \in DOMAIN loaded
                /\ loaded[k].events # << >>
                /\ loaded[k].current = Last(loaded[k].events).status) =>
                /\ Reconstructed(k)
                /\ (Len(OngoingPeriods(hist[k].periods)) >= 1) <=> (hist[k].current = "closed")

\* the run left a touched record whose log is not in timestamp order, closed
\* with an ongoing period, beside an untouched open record with none
C20_Witness ==
    /\ pc = "done"
    /\ \E k \in touched :
          /\ ~SortedLog(hist[k].events)
          /\ hist[k].current = "closed"
          /\ Len(OngoingPeriods(hist[k].periods)) = 1
    /\ \E k \in DOMAIN hist \ touched :
          /\ hist[k].current = "open"
          /\ OngoingPeriods(hist[k].periods) = << >>

====
